---- MODULE Spec2Model ----
(***************************************************************************)
(* A model of allesatt's engine (src/src/engine): the in-memory store, the *)
(* due-date predictor, the task engine, the listing query and the event    *)
(* log with its replay.                                                    *)
(*                                                                         *)
(* Time is counted in whole seconds from an arbitrary epoch; a Duration is *)
(* a (signed) number of seconds.  An Option is a sequence of length 0 or 1 *)
(* (None == <<>>, Some(x) == <<x>>).  Ids, dates and durations stay far    *)
(* inside the ranges of u64, OffsetDateTime and time::Duration, so the     *)
(* range checks of those types never trip in the model.                    *)
(***************************************************************************)
EXTENDS Integers, Sequences, FiniteSets, TLC

(* ---------------------------------------------------------------- bounds *)
\* create_task / clone_task are offered while fewer than MaxTasks ids are used
MaxTasks == 2
\* a call is offered while fewer than MaxLog lines were appended to the log
MaxLog == 3
\* the clock stops after MaxDay days
MaxDay == 1
\* PredictorSpec completes a task's todos MaxCompletions times
MaxCompletions == 12
\* ListingSpec lists stores of up to MaxListed tasks
MaxListed == 6

(* ------------------------------------------------------------- constants *)
DAY == 86400
HOUR == DAY \div 24
DEFAULT_PERIOD == 30 * DAY

None == <<>>
Some(x) == <<x>>
IsSome(o) == o # <<>>
Max(a, b) == IF a >= b THEN a ELSE b
Min(a, b) == IF a <= b THEN a ELSE b

\* time::Duration / integer: the quotient is truncated toward zero
DurationDiv(d, n) == IF d >= 0 THEN d \div n ELSE -((-d) \div n)

(* ------------------------------------------------------------- the store *)
\* MemStore: tasks and todos are id-keyed maps (functions on their key sets)
MemStore_new ==
  [tasks |-> <<>>, last_task_id |-> 0, todos |-> <<>>, last_todo_id |-> 0]

\* f with key k bound to v (HashMap::insert)
Insert(f, k, v) == [x \in (DOMAIN f) \cup {k} |-> IF x = k THEN v ELSE f[x]]
\* f without key k (HashMap::remove)
Remove(f, k) == [x \in (DOMAIN f) \ {k} |-> f[x]]

\* the open todos of a task; find_open_todo returns one of them, if any
OpenTodos(todos, task) ==
  {i \in DOMAIN todos : todos[i].task = task /\ todos[i].completed = None}

find_open_todo(store, task) ==
  IF OpenTodos(store.todos, task) = {} THEN None
  ELSE Some(store.todos[CHOOSE i \in OpenTodos(store.todos, task) : TRUE])

\* get_todos(Some(task), Some(completed)): the ids of the matching todos
get_todos(store, task, completed) ==
  {i \in DOMAIN store.todos :
     /\ store.todos[i].task = task
     /\ completed = IsSome(store.todos[i].completed)}

store_create_task(store, title) ==
  LET id == store.last_task_id + 1
  IN [st |-> "Ok",
      store |-> [store EXCEPT !.last_task_id = id,
                              !.tasks = Insert(store.tasks, id, [id |-> id, title |-> title])],
      id |-> id]

\* a create_todo that does not look for an open todo first
store_create_todo_unchecked(store, task, due) ==
  LET id == store.last_todo_id + 1
  IN [st |-> "Ok",
      store |-> [store EXCEPT !.last_todo_id = id,
                              !.todos = Insert(store.todos, id,
                                 [id |-> id, task |-> task, completed |-> None, due |-> due])],
      id |-> id]

\* panics when the task already has an open todo; the task id is not looked up
store_create_todo(store, task, due) ==
  IF IsSome(find_open_todo(store, task))
  THEN [st |-> "Panic", store |-> store, id |-> 0]
  ELSE LET id == store.last_todo_id + 1
       IN [st |-> "Ok",
           store |-> [store EXCEPT !.last_todo_id = id,
                                   !.todos = Insert(store.todos, id,
                                      [id |-> id, task |-> task,
                                       completed |-> None, due |-> due])],
           id |-> id]

\* a delete_todo that gives the id back when it was the last one assigned
store_delete_todo_recycling(store, todo) ==
  IF todo \in DOMAIN store.todos
  THEN [st |-> "Ok",
        store |-> [store EXCEPT !.todos = Remove(store.todos, todo),
                                !.last_todo_id = IF todo = store.last_todo_id
                                                 THEN todo - 1 ELSE store.last_todo_id]]
  ELSE [st |-> "Err", store |-> store]

\* a delete_todo that removes every todo of the deleted todo's task
store_delete_todo_of_task(store, todo) ==
  IF todo \in DOMAIN store.todos
  THEN [st |-> "Ok",
        store |-> [store EXCEPT !.todos =
                     [i \in {j \in DOMAIN store.todos :
                               store.todos[j].task # store.todos[todo].task} |-> store.todos[i]]]]
  ELSE [st |-> "Err", store |-> store]

store_delete_todo(store, todo) ==
  IF todo \in DOMAIN store.todos
  THEN [st |-> "Ok", store |-> [store EXCEPT !.todos = Remove(store.todos, todo)]]
  ELSE [st |-> "Err", store |-> store]

\* a set_todo_completed that adds a todo under an id the store does not know
store_set_todo_completed_upsert(store, id, completed) ==
  [st |-> "Ok",
   store |-> [store EXCEPT !.todos =
                Insert(store.todos, id,
                       IF id \in DOMAIN store.todos
                       THEN [store.todos[id] EXCEPT !.completed = completed]
                       ELSE [id |-> id, task |-> 0, completed |-> completed, due |-> 0])]]

store_set_todo_completed(store, id, completed) ==
  IF id \in DOMAIN store.todos
  THEN [st |-> "Ok", store |-> [store EXCEPT !.todos[id].completed = completed]]
  ELSE [st |-> "Err", store |-> store]

\* a set_todo_due that replaces the todo by a new one with the next id
store_set_todo_due_as_new(store, id, due) ==
  IF id \in DOMAIN store.todos
  THEN LET new == store.last_todo_id + 1
       IN [st |-> "Ok",
           store |-> [store EXCEPT !.last_todo_id = new,
                                   !.todos = Insert(Remove(store.todos, id), new,
                                      [store.todos[id] EXCEPT !.id = new, !.due = due])]]
  ELSE [st |-> "Err", store |-> store]

store_set_todo_due(store, id, due) ==
  IF id \in DOMAIN store.todos
  THEN [st |-> "Ok", store |-> [store EXCEPT !.todos[id].due = due]]
  ELSE [st |-> "Err", store |-> store]

(* --------------------------------------------------------- the predictor *)
\* DueIn: <<"Fixed", duration>> or <<"Calculated", sum, count>>
Fixed(d) == <<"Fixed", d>>
Calculated(sum, count) == <<"Calculated", sum, count>>

\* a get that knows the learned average and the default only
DueIn_get_without_fixed(v) ==
  IF v # None /\ v[1][1] = "Calculated" THEN DurationDiv(v[1][2], v[1][3])
  ELSE DEFAULT_PERIOD

DueIn_get(v) ==
  IF v = None THEN DEFAULT_PERIOD
  ELSE IF v[1][1] = "Calculated" THEN DurationDiv(v[1][2], v[1][3])
  ELSE v[1][2]

\* an add that counts every sample, without the cap of 10
DueIn_add_uncapped(v, duration) ==
  IF v # None /\ v[1][1] = "Calculated"
  THEN LET sum == v[1][2]
           count == v[1][3]
           new_count == count + 1
       IN Some(Calculated(duration + DurationDiv(sum, count) * (new_count - 1), new_count))
  ELSE Some(Calculated(duration, 1))

\* an add that keeps the old average as one sample, whatever its weight
DueIn_add_unweighted(v, duration) ==
  IF v # None /\ v[1][1] = "Calculated"
  THEN LET sum == v[1][2]
           count == v[1][3]
           new_count == Min(10, count + 1)
       IN Some(Calculated(duration + DurationDiv(sum, count), new_count))
  ELSE Some(Calculated(duration, 1))

\* an add that averages the first gap with the fixed interval
DueIn_add_averaging(v, duration) ==
  IF v # None /\ v[1][1] = "Calculated"
  THEN LET sum == v[1][2]
           count == v[1][3]
           new_count == Min(10, count + 1)
       IN Some(Calculated(duration + DurationDiv(sum, count) * (new_count - 1), new_count))
  ELSE IF v # None THEN Some(Calculated(duration + v[1][2], 2))
  ELSE Some(Calculated(duration, 1))

DueIn_add(v, duration) ==
  IF v # None /\ v[1][1] = "Calculated"
  THEN LET sum == v[1][2]
           count == v[1][3]
           new_count == Min(10, count + 1)
       IN Some(Calculated(duration + DurationDiv(sum, count) * (new_count - 1), new_count))
  ELSE Some(Calculated(duration, 1))

DueGuesser_new == <<>>

init_task(info, task_id, due_after) ==
  Insert(info, task_id,
         [due_in |-> IF due_after = None THEN None ELSE Some(Fixed(due_after[1])),
          last_completed |-> None])

\* a copy_task that copies the interval and forgets the last completion
copy_task_without_last(info, task_id, other_task_id) ==
  IF other_task_id \in DOMAIN info
  THEN [st |-> "Ok",
        info |-> Insert(info, task_id,
                        [due_in |-> info[other_task_id].due_in, last_completed |-> None])]
  ELSE [st |-> "Panic", info |-> info]

\* unwrap() panics when the source task has no entry
copy_task(info, task_id, other_task_id) ==
  IF other_task_id \in DOMAIN info
  THEN [st |-> "Ok", info |-> Insert(info, task_id, info[other_task_id])]
  ELSE [st |-> "Panic", info |-> info]

\* a handle_completion that folds every completion into the interval, the
\* first one as a gap of zero
handle_completion_first_folded(info, store, todo_id, completed) ==
  IF todo_id \notin DOMAIN store.todos THEN [st |-> "Panic", info |-> info]
  ELSE LET task_id == store.todos[todo_id].task
       IN IF task_id \notin DOMAIN info THEN [st |-> "Ok", info |-> info]
          ELSE LET old == info[task_id]
                   last == IF old.last_completed = None THEN completed
                           ELSE old.last_completed[1]
               IN [st |-> "Ok",
                   info |-> [info EXCEPT ![task_id] =
                               [due_in |-> DueIn_add(old.due_in, completed - last),
                                last_completed |-> Some(completed)]]]

\* a handle_completion that learns the gap since the todo's due date when no
\* completion is on record
handle_completion_from_due(info, store, todo_id, completed) ==
  IF todo_id \notin DOMAIN store.todos THEN [st |-> "Panic", info |-> info]
  ELSE LET task_id == store.todos[todo_id].task
       IN IF task_id \notin DOMAIN info THEN [st |-> "Ok", info |-> info]
          ELSE LET old == info[task_id]
                   last == IF old.last_completed = None THEN store.todos[todo_id].due
                           ELSE old.last_completed[1]
               IN [st |-> "Ok",
                   info |-> [info EXCEPT ![task_id] =
                               [due_in |-> DueIn_add(old.due_in, completed - last),
                                last_completed |-> Some(completed)]]]

\* expect() panics when the todo is not in the store; a task without an
\* entry is skipped
handle_completion(info, store, todo_id, completed) ==
  IF todo_id \notin DOMAIN store.todos THEN [st |-> "Panic", info |-> info]
  ELSE LET task_id == store.todos[todo_id].task
       IN IF task_id \notin DOMAIN info THEN [st |-> "Ok", info |-> info]
          ELSE LET old == info[task_id]
                   due_in == IF old.last_completed = None THEN old.due_in
                             ELSE DueIn_add(old.due_in, completed - old.last_completed[1])
               IN [st |-> "Ok",
                   info |-> [info EXCEPT ![task_id] =
                               [due_in |-> due_in, last_completed |-> Some(completed)]]]

\* the hook pause_task calls: the completion before a pause is forgotten, so
\* that the gap spanning the pause is not learned
handle_pause(info, task_id) ==
  IF task_id \in DOMAIN info
  THEN [info EXCEPT ![task_id].last_completed = None]
  ELSE info

\* a guess_due that counts from the current time
guess_due_from_now(info, task_id, now) ==
  now + DueIn_get(IF task_id \in DOMAIN info THEN info[task_id].due_in ELSE None)

guess_due(info, task_id, now) ==
  LET base == IF task_id \in DOMAIN info /\ info[task_id].last_completed # None
              THEN info[task_id].last_completed[1] ELSE now
      plus == DueIn_get(IF task_id \in DOMAIN info THEN info[task_id].due_in ELSE None)
  IN base + plus

\* a guess_later that always postpones by a fifth of the interval
guess_later_fifth(info, store, todo_id, now) ==
  IF todo_id \notin DOMAIN store.todos THEN [st |-> "Panic", due |-> 0]
  ELSE LET todo == store.todos[todo_id]
           due_in == IF todo.task \in DOMAIN info THEN info[todo.task].due_in ELSE None
       IN [st |-> "Ok", due |-> Max(now, todo.due) + DurationDiv(DueIn_get(due_in), 5)]

\* expect() panics when the todo is not in the store
guess_later(info, store, todo_id, now) ==
  IF todo_id \notin DOMAIN store.todos THEN [st |-> "Panic", due |-> 0]
  ELSE LET todo == store.todos[todo_id]
           due_in == IF todo.task \in DOMAIN info THEN info[todo.task].due_in ELSE None
       IN [st |-> "Ok",
           due |-> Max(now, todo.due) + Max(DAY, DurationDiv(DueIn_get(due_in), 5))]

(* ------------------------------------------------------------ the engine *)
\* AllesattInner: the store and the predictor.  Every operation returns
\* [st, e, val, msg]: st is "Ok", "Err" (an Err(..) result) or "Panic" (the
\* process aborts); e is the engine afterwards, val the ids returned.
AllesattInner_new(store) == [store |-> store, due_guesser |-> DueGuesser_new]

Result(st, e, val, msg) == [st |-> st, e |-> e, val |-> val, msg |-> msg]

inner_create_task(e, title, due_every, now) ==
  LET t == store_create_task(e.store, title)
      info == init_task(e.due_guesser, t.id, due_every)
      c == store_create_todo(t.store, t.id, now)
  IN IF c.st = "Panic" THEN Result("Panic", e, <<>>, "Already has an open todo")
     ELSE Result("Ok", [store |-> c.store, due_guesser |-> info], <<t.id, c.id>>, "")

\* the orders in which a HashMap may yield the todos of the set S
Orders(S) ==
  {o \in [1..Cardinality(S) -> S] : \A i, j \in 1..Cardinality(S) : i # j => o[i] # o[j]}

\* clone_task's loop over (due, completed) of the source's completed todos:
\* each is created open on the new task and then marked completed
RECURSIVE CopyTodos(_, _, _, _)
CopyTodos(store, src, new_task_id, order) ==
  IF order = <<>> THEN [st |-> "Ok", store |-> store]
  ELSE LET c == store_create_todo(store, new_task_id, src[Head(order)].due)
       IN IF c.st = "Panic" THEN [st |-> "Panic", store |-> store]
          ELSE LET s == store_set_todo_completed(c.store, c.id, src[Head(order)].completed)
               IN IF s.st = "Err" THEN [st |-> "Err", store |-> s.store]
                  ELSE CopyTodos(s.store, src, new_task_id, Tail(order))

\* a clone_task that creates the new task before it looks the source up
inner_clone_task_create_first(e, task_id, title, order) ==
  LET t == store_create_task(e.store, title)
  IN Result("Err", [e EXCEPT !.store = t.store], <<>>, "task not found")

\* order: the order in which get_todos yielded the source's completed todos
inner_clone_task(e, task_id, title, order) ==
  IF task_id \notin DOMAIN e.store.tasks THEN Result("Err", e, <<>>, "task not found")
  ELSE
    LET t == store_create_task(e.store, title)
        g == copy_task(e.due_guesser, t.id, task_id)
        k == CopyTodos(t.store, e.store.todos, t.id, order)
        e1 == [store |-> k.store, due_guesser |-> g.info]
        open == find_open_todo(k.store, task_id)
    IN IF g.st = "Panic" THEN Result("Panic", e, <<>>, "unwrap on None")
       ELSE IF k.st = "Panic" THEN Result("Panic", e, <<>>, "Already has an open todo")
       ELSE IF k.st = "Err" THEN Result("Err", e1, <<>>, "Todo not found")
       ELSE IF open = None
            THEN Result("Err", e1, <<>>, "Cloning paused tasks is not implemented")
       ELSE LET c == store_create_todo(k.store, t.id, open[1].due)
            IN IF c.st = "Panic" THEN Result("Panic", e, <<>>, "Already has an open todo")
               ELSE Result("Ok", [store |-> c.store, due_guesser |-> g.info],
                           <<t.id, c.id>>, "")

\* a complete_todo that does not create the next todo
inner_complete_todo_without_next(e, todo_id, completed, now) ==
  LET h == handle_completion(e.due_guesser, e.store, todo_id, completed)
      s == store_set_todo_completed(e.store, todo_id, Some(completed))
  IN IF h.st = "Panic" THEN Result("Panic", e, <<>>, "Todo not found")
     ELSE IF s.st = "Err"
          THEN Result("Err", [e EXCEPT !.due_guesser = h.info], <<>>, "Todo not found")
     ELSE Result("Ok", [store |-> s.store, due_guesser |-> h.info], <<>>, "")

\* completed: the instant of TodoCompleted.date
inner_complete_todo(e, todo_id, completed, now) ==
  LET h == handle_completion(e.due_guesser, e.store, todo_id, completed)
      s == store_set_todo_completed(e.store, todo_id, Some(completed))
  IN IF h.st = "Panic" THEN Result("Panic", e, <<>>, "Todo not found")
     ELSE IF s.st = "Err"
          THEN Result("Err", [e EXCEPT !.due_guesser = h.info], <<>>, "Todo not found")
     ELSE LET task_id == s.store.todos[todo_id].task
              due == guess_due(h.info, task_id, now)
              c == store_create_todo(s.store, task_id, due)
          IN IF c.st = "Panic" THEN Result("Panic", e, <<>>, "Already has an open todo")
             ELSE Result("Ok", [store |-> c.store, due_guesser |-> h.info], <<>>, "")

inner_todo_later(e, todo_id, now) ==
  LET g == guess_later(e.due_guesser, e.store, todo_id, now)
      s == store_set_todo_due(e.store, todo_id, g.due)
  IN IF g.st = "Panic" THEN Result("Panic", e, <<>>, "Todo not found")
     ELSE IF s.st = "Err" THEN Result("Err", e, <<>>, "Todo not found")
     ELSE Result("Ok", [e EXCEPT !.store = s.store], <<>>, "")

\* a pause_task that succeeds whether or not there is an open todo
inner_pause_task_lenient(e, task_id) ==
  LET open == find_open_todo(e.store, task_id)
      d == IF open = None THEN [st |-> "Ok", store |-> e.store]
           ELSE store_delete_todo(e.store, open[1].id)
  IN Result("Ok", [store |-> d.store, due_guesser |-> handle_pause(e.due_guesser, task_id)],
            <<>>, "")

inner_pause_task(e, task_id) ==
  LET open == find_open_todo(e.store, task_id)
  IN IF open = None THEN Result("Err", e, <<>>, "Task not found or already paused")
     ELSE LET d == store_delete_todo(e.store, open[1].id)
          IN IF d.st = "Err" THEN Result("Err", e, <<>>, "Todo not found")
             ELSE Result("Ok", [store |-> d.store,
                                due_guesser |-> handle_pause(e.due_guesser, task_id)],
                         <<>>, "")

\* an unpause_task that returns an error value when the task has an open todo
inner_unpause_task_recoverable(e, task_id, now) ==
  LET c == store_create_todo(e.store, task_id, now)
  IN IF c.st = "Panic" THEN Result("Err", e, <<>>, "Already has an open todo")
     ELSE Result("Ok", [e EXCEPT !.store = c.store], <<c.id>>, "")

\* an unpause_task that asks the predictor for the due date
inner_unpause_task_guessed(e, task_id, now) ==
  LET c == store_create_todo(e.store, task_id, guess_due(e.due_guesser, task_id, now))
  IN IF c.st = "Panic" THEN Result("Panic", e, <<>>, "Already has an open todo")
     ELSE Result("Ok", [e EXCEPT !.store = c.store], <<c.id>>, "")

inner_unpause_task(e, task_id, now) ==
  LET c == store_create_todo(e.store, task_id, now)
  IN IF c.st = "Panic" THEN Result("Panic", e, <<>>, "Already has an open todo")
     ELSE Result("Ok", [e EXCEPT !.store = c.store], <<c.id>>, "")

(* ------------------------------------------------------ the listing query *)
\* engine::get_todos(store, all) of mod.rs (the store's own get_todos is the
\* operator of that name above).  A listed todo is the pair <<todo id, task
\* id>>; the query returns [todos, paused_tasks, and_more].
MAX_DUE == 5
MAX_NOT_DUE == 3
RANDOM_SAMPLE == TRUE

\* slice::binary_search_by_key over ascending keys, indices from 0: Ok(i) for
\* any i whose key matches, or else Err(i), the index to insert at
binary_search(keys, key) ==
  IF \E i \in 1..Len(keys) : keys[i] = key
  THEN {i - 1 : i \in {j \in 1..Len(keys) : keys[j] = key}}
  ELSE {Cardinality({j \in 1..Len(keys) : keys[j] < key})}

\* Vec::insert(pos, x), pos from 0
VecInsert(v, pos, x) == SubSeq(v, 1, pos) \o <<x>> \o SubSeq(v, pos + 1, Len(v))

\* a loop body that pushes a task without an open todo to the end of the
\* paused list
visit_task_appending(store, all, tomorrow, acc, task) ==
  LET open == find_open_todo(store, task)
  IN IF open # None
     THEN LET todo == open[1]
              due == todo.due <= tomorrow
              todos == IF due THEN acc.todos_due ELSE acc.todos_not_due
              keys == [i \in 1..Len(todos) |-> store.todos[todos[i][1]].due]
          IN { IF all \/ pos < (IF due THEN MAX_DUE ELSE MAX_NOT_DUE)
               THEN IF due
                    THEN [acc EXCEPT !.todos_due = VecInsert(todos, pos, <<todo.id, task>>)]
                    ELSE [acc EXCEPT !.todos_not_due = VecInsert(todos, pos, <<todo.id, task>>)]
               ELSE IF due THEN [acc EXCEPT !.and_more = TRUE]
               ELSE acc
               : pos \in binary_search(keys, todo.due) }
     ELSE { [acc EXCEPT !.paused_tasks = Append(acc.paused_tasks, task)] }

\* the loop body for one task: acc is [todos_due, todos_not_due, paused_tasks,
\* and_more]; the result is the set of values acc may have afterwards
visit_task(store, all, tomorrow, acc, task) ==
  LET open == find_open_todo(store, task)
  IN IF open # None
     THEN LET todo == open[1]
              due == todo.due <= tomorrow
              todos == IF due THEN acc.todos_due ELSE acc.todos_not_due
              keys == [i \in 1..Len(todos) |-> store.todos[todos[i][1]].due]
          IN { IF all \/ pos < (IF due THEN MAX_DUE ELSE MAX_NOT_DUE)
               THEN IF due
                    THEN [acc EXCEPT !.todos_due = VecInsert(todos, pos, <<todo.id, task>>)]
                    ELSE [acc EXCEPT !.todos_not_due = VecInsert(todos, pos, <<todo.id, task>>)]
               ELSE IF due THEN [acc EXCEPT !.and_more = TRUE]
               ELSE acc
               : pos \in binary_search(keys, todo.due) }
     ELSE { [acc EXCEPT !.paused_tasks = VecInsert(acc.paused_tasks, pos, task)]
            : pos \in binary_search(acc.paused_tasks, task) }

\* the loop over store.get_tasks(), which yields the tasks in any order:
\* front holds [left, acc], the tasks still to come and the lists so far
RECURSIVE visit_tasks(_, _, _, _)
visit_tasks(store, all, tomorrow, front) ==
  IF \A f \in front : f.left = {} THEN {f.acc : f \in front}
  ELSE visit_tasks(store, all, tomorrow,
         UNION { UNION { {[left |-> f.left \ {t}, acc |-> a]
                          : a \in visit_task(store, all, tomorrow, f.acc, t)}
                         : t \in f.left }
                 : f \in front })

\* the elements of v at the indices idxs, in the order of v
Pick(v, idxs) ==
  [k \in 1..Cardinality(idxs) |->
     v[CHOOSE i \in idxs : Cardinality({j \in idxs : j < i}) = k - 1]]

\* a finish that cuts more than MAX_DUE due todos down without telling
finish_silent(all, acc) ==
  IF all
  THEN {[todos |-> acc.todos_due \o acc.todos_not_due,
         paused_tasks |-> acc.paused_tasks, and_more |-> acc.and_more]}
  ELSE IF Len(acc.todos_due) > MAX_DUE
  THEN {[todos |-> SubSeq(acc.todos_due, 1, MAX_DUE),
         paused_tasks |-> acc.paused_tasks, and_more |-> acc.and_more]}
  ELSE LET n == Min(Len(acc.todos_not_due), Max(0, MAX_NOT_DUE - Len(acc.todos_due)))
       IN {[todos |-> acc.todos_due \o SubSeq(acc.todos_not_due, 1, n),
            paused_tasks |-> acc.paused_tasks, and_more |-> acc.and_more]}

\* what follows the loop: all lists every todo; otherwise more than MAX_DUE
\* due todos are cut down to a random sample of MAX_DUE, in their order, and
\* todos that are not due fill the list up to MAX_NOT_DUE entries
finish(all, acc) ==
  IF all
  THEN {[todos |-> acc.todos_due \o acc.todos_not_due,
         paused_tasks |-> acc.paused_tasks, and_more |-> acc.and_more]}
  ELSE IF Len(acc.todos_due) > MAX_DUE
  THEN IF RANDOM_SAMPLE
       THEN {[todos |-> Pick(acc.todos_due, idxs),
              paused_tasks |-> acc.paused_tasks, and_more |-> TRUE]
             : idxs \in {I \in SUBSET (1..Len(acc.todos_due)) : Cardinality(I) = MAX_DUE}}
       ELSE {[todos |-> SubSeq(acc.todos_due, 1, MAX_DUE),
              paused_tasks |-> acc.paused_tasks, and_more |-> TRUE]}
  ELSE LET n == Min(Len(acc.todos_not_due), Max(0, MAX_NOT_DUE - Len(acc.todos_due)))
       IN {[todos |-> acc.todos_due \o SubSeq(acc.todos_not_due, 1, n),
            paused_tasks |-> acc.paused_tasks, and_more |-> acc.and_more]}

\* the results get_todos(store, all) may return at the time now
engine_get_todos(store, all, now) ==
  LET start == [todos_due |-> <<>>, todos_not_due |-> <<>>, paused_tasks |-> <<>>,
                and_more |-> FALSE]
      accs == visit_tasks(store, all, now + DAY,
                          {[left |-> DOMAIN store.tasks, acc |-> start]})
  IN UNION {finish(all, acc) : acc \in accs}

(* --------------------------------------------------------------- the log *)
\* A TodoCompleted handed to complete_todo is [date, offset]: the instant and
\* the UTC offset of its OffsetDateTime.  The store and the predictor compare
\* and add instants only.  Serialising prints the date and time of day in the
\* value's own offset, without the offset; deserialising reads them as UTC.
TodoCompleted_new(date, offset) == [date |-> date, offset |-> offset]

TodoCompleted_serialize(completed) == completed.date + completed.offset

TodoCompleted_deserialize(s) == TodoCompleted_new(s, 0)

\* the lines the log_* methods write; a line is <<prefix, arguments...>>
log_create_task(title, due_every, task_id, todo_id) ==
  <<"create_task1", title, due_every, task_id, todo_id>>

log_clone_task(task_id, title, new_task_id, todo_id) ==
  <<"clone_task1", task_id, title, new_task_id, todo_id>>

log_complete_todo(todo_id, completed) ==
  <<"complete_todo1", todo_id, TodoCompleted_serialize(completed)>>

log_todo_later(todo_id) == <<"todo_later1", todo_id>>

log_pause_task(task_id) == <<"pause_task1", task_id>>

log_unpause_task(task_id) == <<"unpause_task1", task_id>>

\* a create_task / clone_task check that accepts whatever ids were assigned
CheckIds_off(r, task_id, todo_id) == r

\* create_task / clone_task lines: the ids recorded must be the ids assigned
CheckIds(r, task_id, todo_id) ==
  IF r.st = "Ok" /\ r.val # <<task_id, todo_id>>
  THEN Result("Err", r.e, <<>>, "Mismatch in task or todo ids")
  ELSE r

\* the operation prefixes parse_line knows, and the length of the JSON tuple
\* that follows each
Prefixes ==
  {"create_task1", "clone_task1", "complete_todo1", "todo_later1", "pause_task1",
   "unpause_task1"}

ArgCount(prefix) ==
  IF prefix \in {"create_task1", "clone_task1"} THEN 4
  ELSE IF prefix = "complete_todo1" THEN 2
  ELSE 1

\* the arms of parse_line's match for a known prefix and a tuple that parsed
apply_line(line, e, now) ==
  CASE line[1] = "create_task1" ->
         {CheckIds(inner_create_task(e, line[2], line[3], now), line[4], line[5])}
    [] line[1] = "clone_task1" ->
         {CheckIds(inner_clone_task(e, line[2], line[3], o), line[4], line[5]) :
            o \in Orders(get_todos(e.store, line[2], TRUE))}
    [] line[1] = "complete_todo1" ->
         {inner_complete_todo(e, line[2], TodoCompleted_deserialize(line[3]).date, now)}
    [] line[1] = "todo_later1" -> {inner_todo_later(e, line[2], now)}
    [] line[1] = "pause_task1" -> {inner_pause_task(e, line[2])}
    [] line[1] = "unpause_task1" -> {inner_unpause_task(e, line[2], now)}

\* the outcomes of re-applying one line to engine e at time now (a set: the
\* order in which clone_task meets the completed todos is not determined).
\* <<>> is a line without ':'; a line of the wrong length is one whose JSON
\* tuple from_json rejects
parse_line(line, e, now) ==
  IF line = <<>> THEN {Result("Err", e, <<>>, "Invalid line")}
  ELSE IF line[1] \notin Prefixes THEN {Result("Err", e, <<>>, "Unexpected")}
  ELSE IF Len(line) # ArgCount(line[1]) + 1 THEN {Result("Err", e, <<>>, "invalid JSON")}
  ELSE apply_line(line, e, now)

\* play_back from the outcomes rs reached so far: the first line that does
\* not return Ok ends the replay
RECURSIVE play_back_from(_, _, _)
play_back_from(lines, rs, now) ==
  IF lines = <<>> THEN rs
  ELSE play_back_from(Tail(lines),
         UNION {IF r.st = "Ok" THEN parse_line(Head(lines), r.e, now) ELSE {r} : r \in rs},
         now)

\* AllesattImpl::try_new over an empty MemStore: every outcome of the replay
play_back(lines, now) ==
  play_back_from(lines, {Result("Ok", AllesattInner_new(MemStore_new), <<>>, "")}, now)

(* ------------------------------------------------------------- the state *)
VARIABLES
  store,        \* AllesattInner.store: the MemStore
  due_guesser,  \* AllesattInner.due_guesser: DueGuesser.info
  log,          \* the lines of the log file, oldest first
  now,          \* the clock read by OffsetDateTime::now_utc()
  pc,           \* "running", "aborted" (a panic) or "failed" (try_new gave Err)
  ret,          \* the last call and what it returned (see Call)
  lost          \* calls of this process that changed the engine and were not logged

vars == <<store, due_guesser, log, now, pc, ret, lost>>

Engine == [store |-> store, due_guesser |-> due_guesser]

Titles == {"task"}
DueEverys == {None, Some(2 * DAY)}
Dates == {d * DAY : d \in 0..MaxDay}
TaskIds == 1..MaxTasks
TodoIds == 1..(store.last_todo_id + 1)
\* the TodoCompleted values offered: any date in UTC, and the current time
\* in an offset of one hour
Completeds == {TodoCompleted_new(d, 0) : d \in Dates} \cup {TodoCompleted_new(now, HOUR)}

\* log files that are damaged: a line with an unknown prefix, a line without
\* ':', a line whose tuple is too short, a create_task line with ids other
\* than the ones assigned, a pause_task line that fails; each is followed by
\* a line that would apply
BadLogs ==
  { <<log_create_task("task", None, 1, 1), <<"delete_task1", 1>>, log_pause_task(1)>>,
    <<log_create_task("task", None, 1, 1), <<>>, log_pause_task(1)>>,
    <<log_create_task("task", None, 1, 1), <<"pause_task1">>, log_pause_task(1)>>,
    <<log_create_task("task", None, 2, 1), log_pause_task(1)>>,
    <<log_create_task("task", None, 1, 1), log_pause_task(2), log_pause_task(1)>> }

\* the log files a process may find when it starts: none yet, or one that
\* earlier processes left: after creating a task and completing it once, or
\* after creating a task and unpausing a task id that was never created; or
\* a damaged one
InitLogs ==
  { <<>>,
    <<log_create_task("task", Some(2 * DAY), 1, 1),
      log_complete_todo(1, TodoCompleted_new(0, 0))>>,
    <<log_create_task("task", None, 1, 1), log_unpause_task(2)>> } \cup BadLogs

IsPrefix(p, l) == Len(p) <= Len(l) /\ SubSeq(l, 1, Len(p)) = p

\* the lines appended since the log file was found
Appended(l) ==
  LET found == {Len(p) : p \in {q \in InitLogs : IsPrefix(q, l)}}
  IN Len(l) - (CHOOSE n \in found : \A m \in found : m <= n)

\* ret: the last call, [op, args, now, st, val, msg, before, log]: its name
\* and arguments, the time it read, what it returned, and the engine and the
\* log it found
Call(op, args, r) ==
  [op |-> op, args |-> args, now |-> now, st |-> r.st, val |-> r.val, msg |-> r.msg,
   before |-> Engine, log |-> log]

Started(r) ==
  [op |-> "try_new", args |-> <<>>, now |-> now, st |-> r.st, val |-> <<>>, msg |-> r.msg,
   before |-> AllesattInner_new(MemStore_new), log |-> log]

\* the engine after a call that returned r: a panic ends the process
Returned(r) ==
  /\ pc' = IF r.st = "Panic" THEN "aborted" ELSE "running"
  /\ store' = r.e.store
  /\ due_guesser' = r.e.due_guesser

\* what AllesattImpl returns for the inner result r: when the inner call
\* returned Ok and writing the log line failed, create_task and clone_task
\* panic in expect() (on_fail = "Panic"), the others return the error with `?`
\* (on_fail = "Err"); the engine stays as the inner call left it
AfterLogging(r, write_ok, on_fail) ==
  IF r.st = "Ok" /\ ~write_ok THEN Result(on_fail, r.e, <<>>, "Error logging") ELSE r

\* a call that changed the engine and wrote no line
Lost(r, write_ok) == lost' = IF r.st = "Ok" /\ ~write_ok THEN lost + 1 ELSE lost

\* a logger that writes every line twice
Logged_twice(r, line) ==
  log' = IF r.st = "Ok" THEN Append(Append(log, line), line) ELSE log

\* a line is appended after a call that returned Ok, and only then
Logged(r, line) == log' = IF r.st = "Ok" THEN Append(log, line) ELSE log

\* what try_new leaves: an engine, an Err for the caller, or a panic
Outcome(st) == IF st = "Ok" THEN "running" ELSE IF st = "Err" THEN "failed" ELSE "aborted"

Init ==
  /\ now = 0
  /\ lost = 0
  /\ log \in InitLogs
  /\ \E r \in play_back(log, now) :
       /\ pc = Outcome(r.st)
       /\ store = r.e.store
       /\ due_guesser = r.e.due_guesser
       /\ ret = Started(r)

Live == pc = "running" /\ Appended(log) + lost < MaxLog

(* ---------------------------------------------- AllesattImpl's operations *)
create_task(title, due_every, write_ok) ==
  /\ Live
  /\ store.last_task_id < MaxTasks
  /\ LET inner == inner_create_task(Engine, title, due_every, now)
         r == AfterLogging(inner, write_ok, "Panic")
     IN /\ Returned(r)
        /\ Logged(r, log_create_task(title, due_every, r.val[1], r.val[2]))
        /\ Lost(inner, write_ok)
        /\ ret' = Call("create_task", <<title, due_every>>, r)
  /\ UNCHANGED now

clone_task(task_id, title, write_ok) ==
  /\ Live
  /\ store.last_task_id < MaxTasks
  /\ \E order \in Orders(get_todos(store, task_id, TRUE)) :
       LET inner == inner_clone_task(Engine, task_id, title, order)
           r == AfterLogging(inner, write_ok, "Panic")
       IN /\ Returned(r)
          /\ Logged(r, log_clone_task(task_id, title, r.val[1], r.val[2]))
          /\ Lost(inner, write_ok)
          /\ ret' = Call("clone_task", <<task_id, title>>, r)
  /\ UNCHANGED now

complete_todo(todo_id, completed, write_ok) ==
  /\ Live
  /\ LET inner == inner_complete_todo(Engine, todo_id, completed.date, now)
         r == AfterLogging(inner, write_ok, "Err")
     IN /\ Returned(r)
        /\ Logged(r, log_complete_todo(todo_id, completed))
        /\ Lost(inner, write_ok)
        /\ ret' = Call("complete_todo", <<todo_id, completed.date, completed.offset>>, r)
  /\ UNCHANGED now

todo_later(todo_id, write_ok) ==
  /\ Live
  /\ LET inner == inner_todo_later(Engine, todo_id, now)
         r == AfterLogging(inner, write_ok, "Err")
     IN /\ Returned(r)
        /\ Logged(r, log_todo_later(todo_id))
        /\ Lost(inner, write_ok)
        /\ ret' = Call("todo_later", <<todo_id>>, r)
  /\ UNCHANGED now

pause_task(task_id, write_ok) ==
  /\ Live
  /\ LET inner == inner_pause_task(Engine, task_id)
         r == AfterLogging(inner, write_ok, "Err")
     IN /\ Returned(r)
        /\ Logged(r, log_pause_task(task_id))
        /\ Lost(inner, write_ok)
        /\ ret' = Call("pause_task", <<task_id>>, r)
  /\ UNCHANGED now

unpause_task(task_id, write_ok) ==
  /\ Live
  /\ LET inner == inner_unpause_task(Engine, task_id, now)
         r == AfterLogging(inner, write_ok, "Err")
     IN /\ Returned(r)
        /\ Logged(r, log_unpause_task(task_id))
        /\ Lost(inner, write_ok)
        /\ ret' = Call("unpause_task", <<task_id>>, r)
  /\ UNCHANGED now

\* a try_new whose replay writes the first line to the log again
try_new_logging ==
  /\ \E r \in play_back(log, now) :
       /\ pc' = Outcome(r.st)
       /\ store' = r.e.store
       /\ due_guesser' = r.e.due_guesser
       /\ ret' = Started(r)
  /\ lost' = 0
  /\ log' = IF log = <<>> THEN log ELSE Append(log, Head(log))
  /\ UNCHANGED now

\* a new process: AllesattImpl::try_new replays the log into a fresh engine
try_new ==
  /\ \E r \in play_back(log, now) :
       /\ pc' = Outcome(r.st)
       /\ store' = r.e.store
       /\ due_guesser' = r.e.due_guesser
       /\ ret' = Started(r)
  /\ lost' = 0
  /\ UNCHANGED <<log, now>>

\* time passes
Tick ==
  /\ now < MaxDay * DAY
  /\ now' = now + DAY
  /\ UNCHANGED <<store, due_guesser, log, pc, ret, lost>>

Next ==
  \/ \E title \in Titles, due_every \in DueEverys, write_ok \in BOOLEAN :
       create_task(title, due_every, write_ok)
  \/ \E task_id \in TaskIds, title \in Titles, write_ok \in BOOLEAN :
       clone_task(task_id, title, write_ok)
  \/ \E todo_id \in TodoIds, completed \in Completeds, write_ok \in BOOLEAN :
       complete_todo(todo_id, completed, write_ok)
  \/ \E todo_id \in TodoIds, write_ok \in BOOLEAN : todo_later(todo_id, write_ok)
  \/ \E task_id \in TaskIds, write_ok \in BOOLEAN : pause_task(task_id, write_ok)
  \/ \E task_id \in TaskIds, write_ok \in BOOLEAN : unpause_task(task_id, write_ok)
  \/ try_new
  \/ Tick

Spec == Init /\ [][Next]_vars

(* ------------------------------------------- one task, completed in a row *)
\* The scenario of the predictor's tests (ignores_fixed_after_two_completions,
\* makes_a_good_guess): a task is created, with a fixed interval of 5 days or
\* none, and its open todo is completed again and again, each time a gap of
\* 2 or 4 days after the completion before (the first time when created).
PredictorDueEverys == {None, Some(5 * DAY)}
PredictorGaps == {2 * DAY, 4 * DAY}

PredictorInit ==
  /\ now = 0
  /\ lost = 0
  /\ pc = "running"
  /\ \E due_every \in PredictorDueEverys :
       LET fresh == AllesattInner_new(MemStore_new)
           r == inner_create_task(fresh, "task", due_every, 0)
       IN /\ store = r.e.store
          /\ due_guesser = r.e.due_guesser
          /\ log = <<log_create_task("task", due_every, r.val[1], r.val[2])>>
          /\ ret = [op |-> "create_task", args |-> <<"task", due_every>>, now |-> 0,
                    st |-> r.st, val |-> r.val, msg |-> r.msg, before |-> fresh,
                    log |-> <<>>]

\* the date of the next completion: gap after the last one on record
NextCompletion(task_id, gap) ==
  IF due_guesser[task_id].last_completed = None THEN now
  ELSE due_guesser[task_id].last_completed[1] + gap

\* complete_todo for the open todo of the task, gap after the last completion
complete_after(gap) ==
  /\ pc = "running"
  /\ Len(log) <= MaxCompletions
  /\ \E task_id \in DOMAIN store.tasks :
       LET todo_id == find_open_todo(store, task_id)[1].id
           completed == TodoCompleted_new(NextCompletion(task_id, gap), 0)
           r == inner_complete_todo(Engine, todo_id, completed.date, now)
       IN /\ Returned(r)
          /\ Logged(r, log_complete_todo(todo_id, completed))
          /\ ret' = Call("complete_todo", <<todo_id, completed.date, completed.offset>>, r)
  /\ UNCHANGED <<now, lost>>

PredictorNext == \E gap \in PredictorGaps : complete_after(gap)

PredictorSpec == PredictorInit /\ [][PredictorNext]_vars

(* ------------------------------------------------ listing a replayed log *)
\* The scenario of the command line's list (and of its test list_todos): a
\* process replays a log and lists the todos.  The log creates up to
\* MaxListed tasks with an interval of 2 days; a task is left as created
\* (replay makes its todo due at the time of the replay), or completed once
\* at some date (its next todo is due 2 days after that date), or paused.
\* Tasks of the same kind are created in a row.
ListingNow == 3 * DAY
ListedKinds ==
  << <<"open">>, <<"done", 0>>, <<"done", 2 * DAY>>, <<"done", 3 * DAY>>,
     <<"done", 4 * DAY>>, <<"paused">> >>

RECURSIVE ListedLog(_)
ListedLog(ks) ==
  IF ks = <<>> THEN <<>>
  ELSE LET n == Len(ks)
           kind == ListedKinds[ks[n]]
           todo_id == n + Cardinality({j \in 1..(n - 1) : ListedKinds[ks[j]][1] = "done"})
           made == Append(ListedLog(SubSeq(ks, 1, n - 1)),
                          log_create_task("task", Some(2 * DAY), n, todo_id))
       IN IF kind[1] = "done"
          THEN Append(made, log_complete_todo(todo_id, TodoCompleted_new(kind[2], 0)))
          ELSE IF kind[1] = "paused" THEN Append(made, log_pause_task(n))
          ELSE made

ListedLogs ==
  UNION { {ListedLog(ks) : ks \in {k \in [1..n -> 1..Len(ListedKinds)] :
                                     \A i \in 1..(n - 1) : k[i] <= k[i + 1]}}
          : n \in 0..MaxListed }

ListingInit ==
  /\ now = ListingNow
  /\ lost = 0
  /\ log \in ListedLogs
  /\ \E r \in play_back(log, now) :
       /\ pc = Outcome(r.st)
       /\ store = r.e.store
       /\ due_guesser = r.e.due_guesser
       /\ ret = Started(r)

\* the list command: the process replays the log, calls get_todos on the
\* engine's store once and prints the result
list_todos(all) ==
  /\ pc = "running"
  /\ ret.op = "try_new"
  /\ \E out \in engine_get_todos(store, all, now) :
       ret' = [op |-> "get_todos", args |-> <<all>>, now |-> now, st |-> "Ok",
               val |-> out, msg |-> "", before |-> Engine, log |-> log]
  /\ UNCHANGED <<store, due_guesser, log, now, pc, lost>>

ListingNext == \E all \in BOOLEAN : list_todos(all)

ListingSpec == ListingInit /\ [][ListingNext]_vars

(* ------------------------------------------------------------ properties *)
Pre == ret.before
Succeeded(op) == ret.op = op /\ ret.st = "Ok"
\* the todos the last call added
NewTodos == (DOMAIN store.todos) \ (DOMAIN Pre.store.todos)
\* every task id in use: the tasks of the store and the tasks todos name
TasksInUse(st) == (DOMAIN st.tasks) \cup {st.todos[i].task : i \in DOMAIN st.todos}
LastLines(n) == SubSeq(log, Len(log) - n + 1, Len(log))
\* the last call changed the engine and failed to write its log line
WriteFailed == ret.msg = "Error logging"
\* the interval the predictor holds for a task
IntervalOf(info, task) ==
  DueIn_get(IF task \in DOMAIN info THEN info[task].due_in ELSE None)
\* how often the pair (due, completed) occurs among the todos ids of st
Copies(st, ids, due, completed) ==
  Cardinality({i \in ids : st.todos[i].due = due /\ st.todos[i].completed = completed})

\* C1: in every reachable state every task id has at most one todo with
\* completed = None
C1_AtMostOneOpen ==
  \A task \in TasksInUse(store) : Cardinality(OpenTodos(store.todos, task)) <= 1

\* C1 witness: after at least three calls one task has an open todo beside
\* completed ones while another task has none
C1_Witness ==
  /\ Len(log) >= 3
  /\ \E t1, t2 \in TasksInUse(store) :
       /\ Cardinality(OpenTodos(store.todos, t1)) = 1
       /\ get_todos(store, t1, TRUE) # {}
       /\ OpenTodos(store.todos, t2) = {}

\* C2 (as claimed): replaying the log written so far into a fresh engine gives
\* the tasks and the todos (ids, tasks, due dates, completions) of the live store
C2_ReplayReproducesStore ==
  (pc = "running" /\ lost = 0) =>
    \A r \in play_back(log, now) :
      /\ r.st = "Ok"
      /\ r.e.store.tasks = store.tasks
      /\ r.e.store.todos = store.todos

\* C3: a complete_todo that returned Ok has marked the todo completed at the
\* given date and added exactly one todo: an open one of the same task, which
\* is then the task's only open todo
C3_CompleteMakesNextOpen ==
  Succeeded("complete_todo") =>
    LET todo_id == ret.args[1]
        task == Pre.store.todos[todo_id].task
    IN /\ store.todos[todo_id].completed = Some(ret.args[2])
       /\ Cardinality(NewTodos) = 1
       /\ \A i \in NewTodos : store.todos[i].task = task /\ store.todos[i].completed = None
       /\ OpenTodos(store.todos, task) = NewTodos

\* C3 witness: the open todo of a task of the store was completed
C3_Witness ==
  /\ Succeeded("complete_todo")
  /\ Pre.store.todos[ret.args[1]].completed = None
  /\ Pre.store.todos[ret.args[1]].task \in DOMAIN store.tasks

\* C4 (as claimed): after a complete_todo that returned Ok the task's open todo
\* is due at the completion date plus the task's interval, the completion
\* folded in
C4_DueFromCompletion ==
  Succeeded("complete_todo") =>
    LET task == Pre.store.todos[ret.args[1]].task
        open == find_open_todo(store, task)
    IN /\ open # None
       /\ open[1].due = ret.args[2] + IntervalOf(due_guesser, task)

\* C5 (as claimed): create_task never fails; it adds one task, a predictor
\* entry (fixed iff due_every is given, no last completion) and one open todo
\* of that task due at the current time, and returns both ids
C5_CreateTaskNeverFails ==
  ret.op = "create_task" =>
    LET task_id == Pre.store.last_task_id + 1
    IN /\ ret.st = "Ok"
       /\ DOMAIN store.tasks = (DOMAIN Pre.store.tasks) \cup {task_id}
       /\ task_id \notin DOMAIN Pre.store.tasks
       /\ due_guesser[task_id] =
            [due_in |-> IF ret.args[2] = None THEN None ELSE Some(Fixed(ret.args[2][1])),
             last_completed |-> None]
       /\ Cardinality(NewTodos) = 1
       /\ \A i \in NewTodos :
            /\ store.todos[i] = [id |-> i, task |-> task_id, completed |-> None, due |-> ret.now]
            /\ OpenTodos(store.todos, task_id) = {i}
            /\ ret.val = <<task_id, i>>

\* C6: pause_task on a task that has an open todo removes that todo and
\* nothing else (and returns Ok unless the log line could not be written):
\* the task has no open todo left, every other todo (the task's completed
\* ones, the other tasks' todos) and every task is as before
C6_PauseDeletesOpenTodo ==
  (ret.op = "pause_task" /\ OpenTodos(Pre.store.todos, ret.args[1]) # {}) =>
    LET open == OpenTodos(Pre.store.todos, ret.args[1])
    IN /\ ret.st = (IF WriteFailed THEN "Err" ELSE "Ok")
       /\ Cardinality(open) = 1
       /\ store.todos = [i \in (DOMAIN Pre.store.todos) \ open |-> Pre.store.todos[i]]
       /\ OpenTodos(store.todos, ret.args[1]) = {}
       /\ store.tasks = Pre.store.tasks

\* C6 witness: the paused task keeps a completed todo and another task id
\* keeps its todos
C6_Witness ==
  /\ Succeeded("pause_task")
  /\ get_todos(store, ret.args[1], TRUE) # {}
  /\ \E i \in DOMAIN store.todos : store.todos[i].task # ret.args[1]

\* C7: unpause_task on a task without an open todo (as pause_task leaves it)
\* adds exactly one todo: open, of that task, due at the time of the call,
\* whatever the predictor holds for the task; it returns the todo's id unless
\* the log line could not be written
C7_UnpauseDueNow ==
  (ret.op = "unpause_task" /\ OpenTodos(Pre.store.todos, ret.args[1]) = {}) =>
    /\ ret.st = (IF WriteFailed THEN "Err" ELSE "Ok")
    /\ Cardinality(NewTodos) = 1
    /\ \A i \in NewTodos :
         /\ store.todos[i] =
              [id |-> i, task |-> ret.args[1], completed |-> None, due |-> ret.now]
         /\ ret.st = "Ok" => ret.val = <<i>>

\* C7 witness: pause_task and then unpause_task of a task with a fixed
\* interval whose guess_due is not the current time
C7_Witness ==
  /\ Succeeded("unpause_task")
  /\ Len(log) >= 2
  /\ LastLines(2) = <<log_pause_task(ret.args[1]), log_unpause_task(ret.args[1])>>
  /\ ret.args[1] \in DOMAIN due_guesser
  /\ due_guesser[ret.args[1]].due_in # None
  /\ get_todos(store, ret.args[1], TRUE) # {}
  /\ guess_due(Pre.due_guesser, ret.args[1], ret.now) # ret.now

\* C8: the gap spanning a pause is not learned.  pause_task forgets the last
\* completion of the task and keeps its interval; unpause_task and todo_later
\* leave the predictor alone; and a complete_todo at t2 for a task with a
\* predictor entry and no last completion on record keeps the interval I,
\* records last_completed = t2 and makes the next todo due at t2 + I
C8_PauseGapNotLearned ==
  /\ (Succeeded("pause_task") /\ ret.args[1] \in DOMAIN Pre.due_guesser) =>
       due_guesser = [Pre.due_guesser EXCEPT ![ret.args[1]].last_completed = None]
  /\ (Succeeded("unpause_task") \/ Succeeded("todo_later")) =>
       due_guesser = Pre.due_guesser
  /\ Succeeded("complete_todo") =>
       LET task == Pre.store.todos[ret.args[1]].task
       IN (task \in DOMAIN Pre.due_guesser /\ Pre.due_guesser[task].last_completed = None) =>
            /\ due_guesser[task].due_in = Pre.due_guesser[task].due_in
            /\ due_guesser[task].last_completed = Some(ret.args[2])
            /\ \A i \in NewTodos :
                 store.todos[i].due = ret.args[2] + IntervalOf(Pre.due_guesser, task)

\* C8 witness: a task completed at t1, paused, unpaused and completed at t2,
\* where t2 - t1 is not its interval I; the new todo is due at t2 + I
C8_Witness ==
  /\ Succeeded("complete_todo")
  /\ Len(log) >= 3
  /\ LET task == Pre.store.todos[ret.args[1]].task
         done == {i \in get_todos(Pre.store, task, TRUE) :
                    ret.args[2] - Pre.store.todos[i].completed[1] \notin
                      {0, IntervalOf(Pre.due_guesser, task)}}
     IN /\ task \in DOMAIN Pre.due_guesser
        /\ done # {}
        /\ log[Len(log) - 2] = log_pause_task(task)
        /\ log[Len(log) - 1] = log_unpause_task(task)
        /\ log[Len(log)][1] = "complete_todo1"
        /\ \E i \in NewTodos :
             store.todos[i].due = ret.args[2] + IntervalOf(Pre.due_guesser, task)

\* C9 (as claimed): a clone_task that returned Ok gives the new task exactly
\* the source's N completed todos, with the same due and completed dates, and
\* exactly one open todo, due when the source's open todo is due; the source's
\* todos are as before
C9_CloneCopiesTodos ==
  Succeeded("clone_task") =>
    LET src == ret.args[1]
        new == ret.val[1]
        srcDone == get_todos(Pre.store, src, TRUE)
        newDone == get_todos(store, new, TRUE)
    IN /\ Cardinality(newDone) = Cardinality(srcDone)
       /\ \A i \in srcDone :
            Copies(store, newDone, Pre.store.todos[i].due, Pre.store.todos[i].completed) =
              Copies(Pre.store, srcDone, Pre.store.todos[i].due, Pre.store.todos[i].completed)
       /\ Cardinality(OpenTodos(store.todos, new)) = 1
       /\ \A i \in OpenTodos(store.todos, new), j \in OpenTodos(Pre.store.todos, src) :
            store.todos[i].due = Pre.store.todos[j].due /\ ret.val[2] = i
       /\ \A i \in DOMAIN Pre.store.todos : store.todos[i] = Pre.store.todos[i]

\* the due date of the todo that complete_todo(todo_id, date) would add
NextDue(e, todo_id, date, at) ==
  LET r == inner_complete_todo(e, todo_id, date, at)
  IN {r.e.store.todos[i].due : i \in (DOMAIN r.e.store.todos) \ (DOMAIN e.store.todos)}

\* C10: a clone_task that returned Ok has given the new task the source's
\* predictor entry (interval and last_completed) and left the source's alone,
\* so that completing either task's open todo at a date t makes the same next
\* due date
C10_CloneCopiesPredictor ==
  Succeeded("clone_task") =>
    LET src == ret.args[1]
        new == ret.val[1]
    IN /\ due_guesser[new] = Pre.due_guesser[src]
       /\ due_guesser[src] = Pre.due_guesser[src]
       /\ \A t \in Dates, i \in OpenTodos(store.todos, new), j \in OpenTodos(store.todos, src) :
            /\ NextDue(Engine, i, t, ret.now) = NextDue(Engine, j, t, ret.now)
            /\ Cardinality(NextDue(Engine, i, t, ret.now)) = 1

\* C10 witness: the source had an interval and a last completion on record
C10_Witness ==
  /\ Succeeded("clone_task")
  /\ Pre.due_guesser[ret.args[1]].due_in # None
  /\ Pre.due_guesser[ret.args[1]].last_completed # None

\* the task has no open todo in the engine the last call found
PausedBefore(task) == OpenTodos(Pre.store.todos, task) = {}
\* the last call left the store, the predictor and the log as it found them
NothingChanged == store = Pre.store /\ due_guesser = Pre.due_guesser /\ log = ret.log
\* the last call returned an error value: no abort, the process goes on
Recoverable == ret.st = "Err" /\ pc = "running"

\* C11 (as claimed): clone_task on a task of the store that has no open todo
\* returns the error "Cloning paused tasks is not implemented", not "task not
\* found", and no ids
C11_ClonePausedUnsupported ==
  (ret.op = "clone_task" /\ ret.args[1] \in DOMAIN Pre.store.tasks /\ PausedBefore(ret.args[1])) =>
    /\ Recoverable
    /\ ret.msg = "Cloning paused tasks is not implemented"
    /\ ret.val = <<>>

\* C12: clone_task with a task id the store does not know returns the error
\* "task not found" (no abort) and leaves tasks, todos, id counters, the
\* predictor and the log as they were
C12_CloneUnknownNotFound ==
  (ret.op = "clone_task" /\ ret.args[1] \notin DOMAIN Pre.store.tasks) =>
    /\ Recoverable
    /\ ret.msg = "task not found"
    /\ ret.val = <<>>
    /\ NothingChanged

\* C12 witness: the unknown id was cloned in a store that has a task, and the
\* id even owns todos
C12_Witness ==
  /\ ret.op = "clone_task"
  /\ ret.args[1] \notin DOMAIN Pre.store.tasks
  /\ Pre.store.tasks # <<>>
  /\ \E i \in DOMAIN Pre.store.todos : Pre.store.todos[i].task = ret.args[1]

\* C13 (as claimed): complete_todo with a todo id that is not in the store
\* returns an error value (no abort) and leaves store, predictor and log as
\* they were
C13_CompleteUnknownNotFound ==
  (ret.op = "complete_todo" /\ ret.args[1] \notin DOMAIN Pre.store.todos) =>
    /\ Recoverable
    /\ NothingChanged

\* C14 (as claimed): todo_later with a todo id that is not in the store
\* returns an error value (no abort) and leaves store, predictor and log as
\* they were
C14_LaterUnknownNotFound ==
  (ret.op = "todo_later" /\ ret.args[1] \notin DOMAIN Pre.store.todos) =>
    /\ Recoverable
    /\ NothingChanged

\* C15: pause_task on a task id without an open todo (an unknown id, or a
\* paused task) returns the error "Task not found or already paused", deletes
\* nothing, leaves store and predictor as they were and appends no log line
C15_PauseWithoutOpenFails ==
  (ret.op = "pause_task" /\ PausedBefore(ret.args[1])) =>
    /\ Recoverable
    /\ ret.msg = "Task not found or already paused"
    /\ NothingChanged

\* C15 witness: pause_task failed on a task of the store that is paused and
\* has a last completion on record, while the store holds todos
C15_Witness ==
  /\ ret.op = "pause_task"
  /\ ret.st = "Err"
  /\ ret.args[1] \in DOMAIN store.tasks
  /\ store.todos # <<>>
  /\ \E t \in DOMAIN due_guesser : due_guesser[t].last_completed # None

\* C16: a todo_later that returned Ok has set the todo's due date to
\* max(now, due before) + max(1 day, interval / 5), the interval being the
\* task's fixed interval, its learned average or the 30-day default; with
\* neither a fixed interval nor history that is max(now, due before) + 6 days
C16_LaterFormula ==
  Succeeded("todo_later") =>
    LET todo == Pre.store.todos[ret.args[1]]
        base == Max(ret.now, todo.due)
        fresh == \/ todo.task \notin DOMAIN Pre.due_guesser
                 \/ Pre.due_guesser[todo.task].due_in = None
        interval == IF fresh THEN 30 * DAY
                    ELSE LET due_in == Pre.due_guesser[todo.task].due_in[1]
                         IN IF due_in[1] = "Fixed" THEN due_in[2]
                            ELSE DurationDiv(due_in[2], due_in[3])
    IN /\ store.todos[ret.args[1]].due = base + Max(DAY, DurationDiv(interval, 5))
       /\ fresh => store.todos[ret.args[1]].due = base + 6 * DAY

\* C16 witness: the open todo of a fresh task without a fixed interval, due
\* in the past, was postponed to 6 days from now
C16_Witness ==
  /\ Succeeded("todo_later")
  /\ Pre.store.todos[ret.args[1]].task \in DOMAIN Pre.due_guesser
  /\ Pre.due_guesser[Pre.store.todos[ret.args[1]].task] = [due_in |-> None, last_completed |-> None]
  /\ Pre.store.todos[ret.args[1]].due < ret.now
  /\ store.todos[ret.args[1]].due = ret.now + 6 * DAY

\* C17: a todo_later that returned Ok changes the due date of that one todo
\* and nothing else: the same todo ids, every todo's id, task and completion
\* as before, every other todo's due date as before, tasks and id counters
\* as before, the predictor as before
C17_LaterChangesOnlyDue ==
  Succeeded("todo_later") =>
    /\ DOMAIN store.todos = DOMAIN Pre.store.todos
    /\ \A i \in DOMAIN store.todos :
         /\ store.todos[i].id = Pre.store.todos[i].id
         /\ store.todos[i].task = Pre.store.todos[i].task
         /\ store.todos[i].completed = Pre.store.todos[i].completed
         /\ i # ret.args[1] => store.todos[i].due = Pre.store.todos[i].due
    /\ store.last_todo_id = Pre.store.last_todo_id
    /\ store.last_task_id = Pre.store.last_task_id
    /\ store.tasks = Pre.store.tasks
    /\ due_guesser = Pre.due_guesser

\* C17 witness: an open todo was postponed while its task has a completed
\* todo and a last completion on record
C17_Witness ==
  /\ Succeeded("todo_later")
  /\ Pre.store.todos[ret.args[1]].completed = None
  /\ store.todos[ret.args[1]].due # Pre.store.todos[ret.args[1]].due
  /\ get_todos(store, store.todos[ret.args[1]].task, TRUE) # {}
  /\ \E t \in DOMAIN due_guesser : due_guesser[t].last_completed # None

\* C18: a second open todo is never created and never refused by an error
\* value: unpause_task on a task id that has an open todo aborts the process,
\* adds no todo and appends no log line, and create_todo for any task id that
\* has an open todo aborts likewise
C18_SecondOpenTodoAborts ==
  /\ (ret.op = "unpause_task" /\ ~PausedBefore(ret.args[1])) =>
       /\ ret.st = "Panic"
       /\ pc = "aborted"
       /\ ret.val = <<>>
       /\ store = Pre.store
       /\ log = ret.log
  /\ \A task \in TasksInUse(store), due \in Dates :
       OpenTodos(store.todos, task) # {} =>
         /\ store_create_todo(store, task, due).st = "Panic"
         /\ store_create_todo(store, task, due).store = store

\* C18 witness: unpause_task was called on a task of the store that is active
C18_Witness ==
  /\ ret.op = "unpause_task"
  /\ ret.args[1] \in DOMAIN Pre.store.tasks
  /\ ~PausedBefore(ret.args[1])
  /\ pc = "aborted"

\* C19: ids are unique and handed out as 1, 2, 3, ...: every task and todo is
\* stored under its own id, no id exceeds its counter, the counters never
\* fall, and the ids a call adds are exactly the ones following the counter
\* it found, so that no id (a deleted todo's neither) is given twice
C19_IdsIncrease ==
  /\ DOMAIN store.tasks = 1..store.last_task_id
  /\ \A t \in DOMAIN store.tasks : store.tasks[t].id = t
  /\ DOMAIN store.todos \subseteq 1..store.last_todo_id
  /\ \A i \in DOMAIN store.todos : store.todos[i].id = i
  /\ Pre.store.last_task_id <= store.last_task_id
  /\ Pre.store.last_todo_id <= store.last_todo_id
  /\ NewTodos \subseteq (Pre.store.last_todo_id + 1)..store.last_todo_id
  /\ ret.op # "try_new" =>
       /\ NewTodos = (Pre.store.last_todo_id + 1)..store.last_todo_id
       /\ (DOMAIN store.tasks) \ (DOMAIN Pre.store.tasks) =
            (Pre.store.last_task_id + 1)..store.last_task_id

\* C19 witness: a todo is added after pause_task deleted the todo with the
\* highest id
C19_Witness ==
  /\ ret.op \in {"unpause_task", "create_task"}
  /\ ret.st = "Ok"
  /\ Pre.store.last_todo_id \notin DOMAIN Pre.store.todos
  /\ NewTodos = {Pre.store.last_todo_id + 1}

\* the record a call writes to the log when it returns Ok
LineOf(call) ==
  CASE call.op = "create_task" ->
         log_create_task(call.args[1], call.args[2], call.val[1], call.val[2])
    [] call.op = "clone_task" ->
         log_clone_task(call.args[1], call.args[2], call.val[1], call.val[2])
    [] call.op = "complete_todo" ->
         log_complete_todo(call.args[1], TodoCompleted_new(call.args[2], call.args[3]))
    [] call.op = "todo_later" -> log_todo_later(call.args[1])
    [] call.op = "pause_task" -> log_pause_task(call.args[1])
    [] call.op = "unpause_task" -> log_unpause_task(call.args[1])

\* C20: store and log move together: a call that returned Ok has changed the
\* engine and appended exactly one record, the one of that call, to the log
\* it found; a call that did not return Ok has appended nothing; starting up
\* appends nothing
C20_LogInLockStep ==
  IF ret.op = "try_new" THEN log = ret.log
  ELSE IF ret.st = "Ok" THEN log = Append(ret.log, LineOf(ret)) /\ Engine # Pre
  ELSE log = ret.log

\* C20 witness: the third record appended is the one of a clone_task
C20_Witness ==
  /\ Succeeded("clone_task")
  /\ Appended(log) = 3
  /\ log[Len(log)] = log_clone_task(ret.args[1], ret.args[2], ret.val[1], ret.val[2])

Ops == {"create_task", "clone_task", "complete_todo", "todo_later", "pause_task", "unpause_task"}

\* C21 (as claimed): the record of a call that returned Ok holds the name of
\* the operation and the arguments that reproduce the call: [title, due_every,
\* task_id, todo_id] for create_task and [source task_id, title, new task_id,
\* todo_id] for clone_task, with the ids the call returned; the todo id and,
\* read back, the completion date given for complete_todo; the id given for
\* the others
C21_RecordReproducesCall ==
  (ret.op \in Ops /\ ret.st = "Ok") =>
    LET line == log[Len(log)]
    IN CASE ret.op = "create_task" ->
              line = <<"create_task1", ret.args[1], ret.args[2], ret.val[1], ret.val[2]>>
         [] ret.op = "clone_task" ->
              line = <<"clone_task1", ret.args[1], ret.args[2], ret.val[1], ret.val[2]>>
         [] ret.op = "complete_todo" ->
              /\ Len(line) = 3
              /\ line[1] = "complete_todo1"
              /\ line[2] = ret.args[1]
              /\ TodoCompleted_deserialize(line[3]).date = ret.args[2]
         [] ret.op = "todo_later" -> line = <<"todo_later1", ret.args[1]>>
         [] ret.op = "pause_task" -> line = <<"pause_task1", ret.args[1]>>
         [] ret.op = "unpause_task" -> line = <<"unpause_task1", ret.args[1]>>

\* C22: replay is log-silent: try_new over a log of n records leaves exactly
\* those n records and counts no call as unlogged.  (The queries through
\* get_store are the operators find_open_todo and get_todos, which read the
\* store and nothing else.)
C22_ReplayIsLogSilent ==
  ret.op = "try_new" =>
    /\ log = ret.log
    /\ lost = 0

\* C22 witness: a process started on a log to which three records had been
\* appended, and got an engine with todos to query
C22_Witness ==
  /\ ret.op = "try_new"
  /\ pc = "running"
  /\ Appended(log) = 3
  /\ \E t \in DOMAIN store.tasks : find_open_todo(store, t) # None

\* the engines reached by applying the first k lines of the log, all of them Ok
Applied(k) == {r \in play_back(SubSeq(log, 1, k), ret.now) : r.st = "Ok"}

\* the n-th of the lines that create a task records n as the task's id
TaskLinesCount(k) ==
  Cardinality({j \in 1..k : log[j] # <<>> /\ log[j][1] \in {"create_task1", "clone_task1"}})

\* C23: replay fails on a bad log.  When try_new hands out an engine, every
\* line had a known prefix and a tuple of the right length, every create_task
\* and clone_task line records the id its task got, and the engine is the one
\* all lines applied give; otherwise try_new stopped at the first line that
\* did not return Ok, with that line's error and nothing later applied, and
\* hands out no engine
C23_ReplayFailsOnBadLog ==
  ret.op = "try_new" =>
    /\ pc = "running" =>
         /\ ret.st = "Ok"
         /\ \E r \in Applied(Len(log)) : Engine = r.e
         /\ \A k \in 1..Len(log) :
              /\ log[k] # <<>>
              /\ log[k][1] \in Prefixes
              /\ Len(log[k]) = ArgCount(log[k][1]) + 1
              /\ log[k][1] \in {"create_task1", "clone_task1"} =>
                   /\ log[k][4] = TaskLinesCount(k)
                   /\ log[k][4] \in DOMAIN store.tasks
    /\ pc # "running" =>
         /\ ret.st # "Ok"
         /\ \E k \in 1..Len(log) :
              \E g \in Applied(k - 1) :
                \E r \in parse_line(log[k], g.e, ret.now) :
                  /\ r.st = ret.st
                  /\ r.msg = ret.msg
                  /\ Engine = r.e

\* C23 witness: try_new failed on a create_task line that records other ids
\* than the ones assigned, and the pause_task line after it was not applied
C23_Witness ==
  /\ ret.op = "try_new"
  /\ pc = "failed"
  /\ ret.msg = "Mismatch in task or todo ids"
  /\ log[Len(log)] = log_pause_task(1)
  /\ OpenTodos(store.todos, 1) # {}

\* C24 (as claimed): when the log line of a call cannot be written, the call
\* returns an error value to its caller, the engine keeps the change the call
\* made, and the log is as before: the store is ahead of the log by that call
C24_LogFailurePropagated ==
  (ret.op \in Ops /\ WriteFailed) =>
    /\ ret.st = "Err"
    /\ pc = "running"
    /\ Engine # Pre
    /\ log = ret.log
    /\ lost >= 1

\* C25 (as claimed): a todo that has a completion record keeps its due date
\* and its completion date and stays in the store, whatever operation is
\* called next
C25_CompletedTodosImmutable ==
  ret.op \in Ops =>
    \A i \in DOMAIN Pre.store.todos :
      Pre.store.todos[i].completed # None =>
        /\ i \in DOMAIN store.todos
        /\ store.todos[i] = Pre.store.todos[i]

\* C26 (as claimed): when every call that changed the engine was logged,
\* every replay of the log that gives an engine, at whatever time it runs,
\* gives the predictor state of the running engine
C26_PredictorReconstructed ==
  (pc = "running" /\ lost = 0) =>
    \A t \in Dates : \A r \in play_back(log, t) :
      r.st = "Ok" => r.e.due_guesser = due_guesser

\* C27: on a todo id the store does not know, set_todo_completed, set_todo_due
\* and delete_todo return an error and the store as it was; on a known id they
\* return Ok and change that todo's completion record, its due date or its
\* presence, and nothing else
C27_StoreOperations ==
  \A id \in TodoIds, d \in Dates : \A c \in {None, Some(d)} :
    LET sc == store_set_todo_completed(store, id, c)
        sd == store_set_todo_due(store, id, d)
        dt == store_delete_todo(store, id)
    IN IF id \notin DOMAIN store.todos
       THEN /\ sc = [st |-> "Err", store |-> store]
            /\ sd = [st |-> "Err", store |-> store]
            /\ dt = [st |-> "Err", store |-> store]
       ELSE /\ sc.st = "Ok" /\ sd.st = "Ok" /\ dt.st = "Ok"
            /\ sc.store = [store EXCEPT !.todos[id].completed = c]
            /\ sd.store = [store EXCEPT !.todos[id].due = d]
            /\ DOMAIN dt.store.todos = (DOMAIN store.todos) \ {id}
            /\ \A i \in DOMAIN dt.store.todos : dt.store.todos[i] = store.todos[i]
            /\ [dt.store EXCEPT !.todos = store.todos] = store

\* C27 witness: pause_task has deleted a todo from a store that keeps other
\* todos, open and completed, so that known and unknown ids are at hand
C27_Witness ==
  /\ Succeeded("pause_task")
  /\ \E i, j \in DOMAIN store.todos :
       store.todos[i].completed = None /\ store.todos[j].completed # None
  /\ \E i \in 1..store.last_todo_id : i \notin DOMAIN store.todos

\* the log is the one of a task created with a fixed interval of 5 days,
\* completed at t1 and completed again 2 days later
FiveDaysThenTwo ==
  /\ Len(log) = 3
  /\ log[1] = log_create_task("task", Some(5 * DAY), 1, 1)
  /\ log[2][1] = "complete_todo1"
  /\ log[3][1] = "complete_todo1"
  /\ log[3][3] = log[2][3] + 2 * DAY

\* C28 (as claimed): after those two completions guess_due is last_completed
\* plus 4 days
C28_LastCompletedPlusFour ==
  FiveDaysThenTwo =>
    guess_due(due_guesser, 1, now) = due_guesser[1].last_completed[1] + 4 * DAY

\* C28 (amended): after those two completions last_completed is the second
\* completion and guess_due is last_completed plus 2 days, which is the first
\* completion plus 4 days; the task's open todo is due then
C28_FirstCompletionPlusFour ==
  FiveDaysThenTwo =>
    /\ due_guesser[1].last_completed = Some(log[3][3])
    /\ guess_due(due_guesser, 1, now) = due_guesser[1].last_completed[1] + 2 * DAY
    /\ guess_due(due_guesser, 1, now) = log[2][3] + 4 * DAY
    /\ find_open_todo(store, 1)[1].due = log[2][3] + 4 * DAY

\* C28 witness: the task with 5 days was completed and completed again 2 days
\* later
C28_Witness ==
  /\ FiveDaysThenTwo
  /\ Succeeded("complete_todo")
  /\ Cardinality(get_todos(store, 1, TRUE)) = 2

\* C29: a task with fixed interval F completed at t1 is next due at t1 + F;
\* completed again at t2 it is next due at t2 + (t2 - t1): the gap replaces F
\* (one sample, F not averaged in)
C29_FixedIgnoredAfterTwo ==
  (Succeeded("complete_todo") /\ Pre.due_guesser[1].due_in # None
     /\ Pre.due_guesser[1].due_in[1][1] = "Fixed") =>
    LET F == Pre.due_guesser[1].due_in[1][2]
        t == ret.args[2]
    IN IF Pre.due_guesser[1].last_completed = None
       THEN /\ due_guesser[1].due_in = Some(Fixed(F))
            /\ guess_due(due_guesser, 1, now) = t + F
            /\ \A i \in NewTodos : store.todos[i].due = t + F
       ELSE LET t1 == Pre.due_guesser[1].last_completed[1]
            IN /\ due_guesser[1].due_in = Some(Calculated(t - t1, 1))
               /\ guess_due(due_guesser, 1, now) = t + (t - t1)
               /\ \A i \in NewTodos : store.todos[i].due = t + (t - t1)

\* C29 witness: the second completion of a task with a fixed interval, after
\* a gap that is not the interval
C29_Witness ==
  /\ Succeeded("complete_todo")
  /\ Pre.due_guesser[1].due_in = Some(Fixed(5 * DAY))
  /\ Pre.due_guesser[1].last_completed # None
  /\ ret.args[2] - Pre.due_guesser[1].last_completed[1] # 5 * DAY

\* C30: the first completion of a task leaves its interval (fixed or none) as
\* it is and sets last_completed; every later one takes diff = completed.date
\* - last_completed, folds diff into the estimate (one sample when nothing was
\* learned yet, the running average after that) and sets last_completed
C30_CompletionFoldsGap ==
  Succeeded("complete_todo") =>
    LET task == Pre.store.todos[ret.args[1]].task
        old == Pre.due_guesser[task]
        new == due_guesser[task]
        diff == ret.args[2] - old.last_completed[1]
    IN /\ new.last_completed = Some(ret.args[2])
       /\ IF old.last_completed = None THEN new.due_in = old.due_in
          ELSE IF old.due_in = None \/ old.due_in[1][1] = "Fixed"
               THEN new.due_in = Some(Calculated(diff, 1))
          ELSE LET sum == old.due_in[1][2]
                   count == old.due_in[1][3]
                   new_count == IF count + 1 < 10 THEN count + 1 ELSE 10
               IN new.due_in =
                    Some(Calculated(diff + DurationDiv(sum, count) * (new_count - 1), new_count))

\* C30 witness: a third completion, folded into an estimate learned from the
\* second
C30_Witness ==
  /\ Succeeded("complete_todo")
  /\ Pre.due_guesser[1].due_in # None
  /\ Pre.due_guesser[1].due_in[1][1] = "Calculated"
  /\ due_guesser[1].due_in[1][3] = 2

\* C31: folding a diff into a learned estimate (sum, count) gives new_count =
\* min(10, count + 1) and new_sum = diff + (sum / count) * (new_count - 1),
\* the interval reported is new_sum / new_count, and the count of a learned
\* estimate is between 1 and 10 in every state, so no division is by zero
C31_RunningAverage ==
  /\ \A t \in DOMAIN due_guesser :
       (due_guesser[t].due_in # None /\ due_guesser[t].due_in[1][1] = "Calculated") =>
         due_guesser[t].due_in[1][3] \in 1..10
  /\ (Succeeded("complete_todo") /\ Pre.due_guesser[1].due_in # None
        /\ Pre.due_guesser[1].due_in[1][1] = "Calculated") =>
       LET sum == Pre.due_guesser[1].due_in[1][2]
           count == Pre.due_guesser[1].due_in[1][3]
           diff == ret.args[2] - Pre.due_guesser[1].last_completed[1]
           new_count == Min(10, count + 1)
           new_sum == diff + DurationDiv(sum, count) * (new_count - 1)
       IN /\ due_guesser[1].due_in = Some(Calculated(new_sum, new_count))
          /\ IntervalOf(due_guesser, 1) = DurationDiv(new_sum, new_count)

\* C31 witness: a diff folded into an estimate that already counts 10 samples
C31_Witness ==
  /\ Succeeded("complete_todo")
  /\ Pre.due_guesser[1].due_in # None
  /\ Pre.due_guesser[1].due_in[1][1] = "Calculated"
  /\ Pre.due_guesser[1].due_in[1][3] = 10
  /\ due_guesser[1].due_in[1][3] = 10

\* the gaps observed so far between the completions of the task, read off
\* the log: one per complete_todo1 line after the first
ObservedGaps == [k \in 1..(Len(log) - 2) |-> log[k + 2][3] - log[k + 1][3]]
\* the sum of the first n observed gaps
RECURSIVE GapSum(_)
GapSum(n) == IF n = 0 THEN 0 ELSE GapSum(n - 1) + ObservedGaps[n]
\* no fold of the running average has truncated: every partial sum of gaps
\* but the last is a multiple of the number of gaps in it
NeverTruncated == \A k \in 1..(Len(log) - 3) : GapSum(k) % k = 0

\* C32 (as claimed): with 1 to 10 observed gaps the learned interval is
\* their arithmetic mean (as a Duration: the sum of the gaps divided by
\* their number)
C32_IntervalIsMean ==
  (Len(log) - 2 \in 1..10) =>
    IntervalOf(due_guesser, 1) = DurationDiv(GapSum(Len(log) - 2), Len(log) - 2)

\* C32 (amended): with 1 to 10 observed gaps the learned interval is their
\* arithmetic mean up to the truncation of the divisions: it is less than 5
\* units away from the mean, it is the mean (as a Duration) while no fold
\* has truncated, and guess_due is the last completion plus that interval
C32_IntervalIsTruncatedMean ==
  (Len(log) - 2 \in 1..10) =>
    LET n == Len(log) - 2
        interval == IntervalOf(due_guesser, 1)
    IN /\ due_guesser[1].due_in[1][3] = n
       /\ (interval - 5) * n < GapSum(n)
       /\ GapSum(n) < (interval + 5) * n
       /\ NeverTruncated => interval = DurationDiv(GapSum(n), n)
       /\ guess_due(due_guesser, 1, now) = due_guesser[1].last_completed[1] + interval

\* C32 witness: gaps of 2 and 4 days were observed and the interval is 3 days
C32_Witness ==
  /\ Len(log) = 4
  /\ ObservedGaps = <<2 * DAY, 4 * DAY>>
  /\ IntervalOf(due_guesser, 1) = 3 * DAY
  /\ guess_due(due_guesser, 1, now) = log[4][3] + 3 * DAY

\* C33: guess_due is base + interval: base is last_completed when one is on
\* record and the current time otherwise; interval is the fixed interval
\* while no gap was learned, the learned average after that, and 30 days
\* when the task has neither; a completed todo's successor is due then
C33_GuessDue ==
  /\ \A t \in DOMAIN due_guesser :
       LET info == due_guesser[t]
           base == IF info.last_completed # None THEN info.last_completed[1] ELSE now
           interval == IF info.due_in = None THEN 30 * DAY
                       ELSE IF info.due_in[1][1] = "Fixed" THEN info.due_in[1][2]
                       ELSE DurationDiv(info.due_in[1][2], info.due_in[1][3])
       IN guess_due(due_guesser, t, now) = base + interval
  /\ Succeeded("complete_todo") =>
       \A i \in NewTodos :
         store.todos[i].task \in DOMAIN due_guesser =>
           store.todos[i].due = guess_due(due_guesser, store.todos[i].task, ret.now)

\* C33 witness: the store holds a task with a fixed interval and no
\* completion on record and a task with a learned interval, and the last
\* call completed a todo of a task known to the predictor
C33_Witness ==
  /\ Succeeded("complete_todo")
  /\ \E i \in NewTodos : store.todos[i].task \in DOMAIN due_guesser
  /\ \E t \in DOMAIN due_guesser :
       /\ due_guesser[t].due_in # None
       /\ due_guesser[t].due_in[1][1] = "Fixed"
  /\ now > 0

\* the last call was get_todos(store, all)
Listed(all) == ret.op = "get_todos" /\ ret.args[1] = all
\* the due date of the i-th listed todo, and whether it counts as due: due
\* within one day from the time of the call
ListedDue(i) == store.todos[ret.val.todos[i][1]].due
DueSoon(d) == d <= ret.now + DAY

\* C34: get_todos(store, true) reports every task exactly once: a task with
\* an open todo in the todo list, paired with that todo, the todos due within
\* one day first and the others after them, each group by ascending due
\* date; a task without an open todo in the paused list, by ascending id
C34_ListsEveryTaskOnce ==
  Listed(TRUE) =>
    LET todos == ret.val.todos
        paused == ret.val.paused_tasks
    IN /\ \A t \in DOMAIN store.tasks :
            Cardinality({i \in 1..Len(todos) : todos[i][2] = t})
              + Cardinality({j \in 1..Len(paused) : paused[j] = t}) = 1
       /\ \A i \in 1..Len(todos) :
            /\ todos[i][2] \in DOMAIN store.tasks
            /\ todos[i][1] \in OpenTodos(store.todos, todos[i][2])
       /\ \A j \in 1..Len(paused) :
            /\ paused[j] \in DOMAIN store.tasks
            /\ OpenTodos(store.todos, paused[j]) = {}
       /\ \A i, j \in 1..Len(todos) :
            i < j => /\ DueSoon(ListedDue(j)) => DueSoon(ListedDue(i))
                     /\ DueSoon(ListedDue(i)) = DueSoon(ListedDue(j)) =>
                          ListedDue(i) <= ListedDue(j)
       /\ \A i, j \in 1..Len(paused) : i < j => paused[i] < paused[j]

\* C34 witness: a full listing with todos due at different dates, one of them
\* exactly one day from now, todos not due at different dates, and two
\* paused tasks
C34_Witness ==
  /\ Listed(TRUE)
  /\ \E i, j, k \in 1..Len(ret.val.todos) :
       /\ ListedDue(i) < ListedDue(j)
       /\ ListedDue(j) = ret.now + DAY
       /\ ListedDue(k) > ListedDue(j)
       /\ ListedDue(Len(ret.val.todos)) > ListedDue(k)
  /\ Len(ret.val.paused_tasks) = 2

\* the open todos that count as due and are not in the returned list
LeftOutDue ==
  {i \in DOMAIN store.todos :
     /\ store.todos[i].completed = None
     /\ store.todos[i].task \in DOMAIN store.tasks
     /\ DueSoon(store.todos[i].due)
     /\ \A k \in 1..Len(ret.val.todos) : ret.val.todos[k][1] # i}

\* C35: get_todos(store, false) returns at most 5 todos, returns todos that
\* are not due only in a list of at most 3, and and_more is true exactly when
\* an open todo that is due is missing from the list
C35_ShortListing ==
  Listed(FALSE) =>
    LET todos == ret.val.todos
    IN /\ Len(todos) <= 5
       /\ (\E i \in 1..Len(todos) : ~DueSoon(ListedDue(i))) => Len(todos) <= 3
       /\ ret.val.and_more <=> LeftOutDue # {}

\* C35 witness: six todos are due, five of them are listed and and_more is
\* set
C35_Witness ==
  /\ Listed(FALSE)
  /\ Len(ret.val.todos) = 5
  /\ Cardinality(LeftOutDue) = 1
  /\ ret.val.and_more

\* C36: every todo in the store refers to a task of the store, whatever was
\* called, unpause_task with any task id included
C36_TodosReferToTasks ==
  \A i \in DOMAIN store.todos : store.todos[i].task \in DOMAIN store.tasks

\* C37: a call that returns an error (other than a failure to write the log)
\* leaves the store and the predictor as they were: no task, todo or
\* predictor entry is added and no task or todo id is used up
C37_ErrorsChangeNothing ==
  (ret.op # "try_new" /\ ret.st = "Err" /\ ~WriteFailed) =>
    /\ store = Pre.store
    /\ due_guesser = Pre.due_guesser

\* C38: while every call of the process was logged, the log written so far
\* replays into a fresh engine without an error
C38_LogReplayable ==
  (pc = "running" /\ lost = 0) =>
    \A r \in play_back(log, now) : r.st = "Ok"

\* C39: the tasks with a predictor entry are the tasks of the store, so the
\* source of a clone_task and the task of a completed todo always had an
\* entry
C39_PredictorInSync ==
  /\ DOMAIN due_guesser = DOMAIN store.tasks
  /\ (ret.op = "clone_task" /\ ret.args[1] \in DOMAIN Pre.store.tasks) =>
       ret.args[1] \in DOMAIN Pre.due_guesser
  /\ Succeeded("complete_todo") =>
       Pre.store.todos[ret.args[1]].task \in DOMAIN Pre.due_guesser

\* C40: no learned interval is negative, guess_due is never before the last
\* completion on record, and the todo that complete_todo opens is due at or
\* after the completion date just recorded
C40_DueNotBeforeCompletion ==
  /\ \A t \in DOMAIN due_guesser :
       /\ IntervalOf(due_guesser, t) >= 0
       /\ due_guesser[t].last_completed # None =>
            guess_due(due_guesser, t, now) >= due_guesser[t].last_completed[1]
  /\ Succeeded("complete_todo") =>
       \A i \in NewTodos : store.todos[i].due >= ret.args[2]

====
